---- MODULE Spec2Model ----
(***************************************************************************)
(* A state-machine model of builtins/amp-img.js: the AmpImg element        *)
(* (attribute mutations, lazy initialisation, layout, source selection,    *)
(* fallback on load error) and the module-level blur-up placeholder         *)
(* pipeline (preload image, throttled load promise, blur worker, canvas    *)
(* reveal and removal timers).                                              *)
(***************************************************************************)
EXTENDS Integers, Sequences, FiniteSets, TLC

(***************************************************************************)
(* Bounds of the model.                                                     *)
(***************************************************************************)
\* number of updateImageSrc_ runs that get as far as createImg(src)
MaxSelections == 2
\* number of this.loadPromise(this.img_) sessions
MaxLoads == 2
\* largest reading of Date.now() (the clock starts at 0)
MaxClock == 1
\* number of calls of SystemLayer.build
MaxBuilds == 2
\* number of TOGGLE_MUTED dispatches (clicks on the mute and unmute controls)
MaxClicks == 2
\* number of mutations pending in the layer's vsync queue up to which a
\* store update or logAll adds one
MaxPending == 2

(***************************************************************************)
(* Values.                                                                  *)
(***************************************************************************)
\* getAttribute() === null for a string-valued attribute
NoAttr == "none"

\* srcset attribute values; <<>> is an absent (or empty) srcset attribute
SrcsetAB == << [url |-> "a.jpg", width |-> 320], [url |-> "b.jpg", width |-> 640] >>
SrcsetValues == { <<>>, SrcsetAB }
\* src attribute values
SrcValues == { "c.jpg" }
\* the src of a server-rendered <img> child (i-amphtml-ssr), or NoAttr when
\* the element has no server-rendered image
SsrValues == { NoAttr, "c.jpg" }

\* inputs of a selection: getLayoutWidth(), and the pair of
\* getViewport().getWidth() and getDpr()
LayoutWidths == { 0, 200 }
Contexts == { << 300, 1 >>, << 400, 2 >>, << 0, 2 >> }
\* this.win.screen.width
ScreenWidth == 300

\* errors a failed image load rejects with
Errors == { "e1", "e2" }

\* const THROTTLE = 1200
THROTTLE == 1200
\* setTimeout(() => canvas.remove(), 500)
RemovalDelay == 500
\* values of Math.floor(Math.random() * THROTTLE)
RandomFloors == { 0, THROTTLE - 1 }

\* the readings of Date.now(), in ms, at which something happens when time
\* is followed: the creation of the first preload, the end of the shortest
\* throttle, 300 and 500 ms after it, and the end of the longest throttle
ClockReadings == { 0, 1200, 1500, 1700, 2400 }

\* TEMPLATE is left with the two sides of a merge conflict; a build has one
Sides == { "HEAD", "upstream" }

\* An element of the rendered layer is named by the classes on the path to
\* it from the buttons container, its own class last; << >> is the layer
\* outside the buttons and "text" any of the three texts of the message.
\* HEAD: a sound-display div holds the message, the
\* unmute control and the mute control, and is followed by the share
\* control.
TemplateHead ==
  { << >>,
    << "sound-display" >>,
    << "sound-display", "message" >>,
    << "sound-display", "message", "text" >>,
    << "sound-display", "unmute" >>,
    << "sound-display", "mute" >>,
    << "share" >> }

\* upstream: an info control, an unmute control, then a div of the mute
\* class that holds the message, an unmute control and a mute control, then
\* the share control
TemplateUpstream ==
  { << >>,
    << "info" >>,
    << "unmute" >>,
    << "mute" >>,
    << "mute", "message" >>,
    << "mute", "message", "text" >>,
    << "mute", "unmute" >>,
    << "mute", "mute" >>,
    << "share" >> }

\* renderAsElement(TEMPLATE): the elements a click can hit
Elements(side) == IF side = "HEAD" THEN TemplateHead ELSE TemplateUpstream

\* onMuteAudioClick_, onUnmuteAudioClick_: const hideTimeout = 1500
HideTimeout == 1500
\* the times (ms) the system layer's clock is read at: a first click, a
\* second one before the first hide timer is due, and the two due times
LayerClock == { 0, 500, 1500, 2000 }

\* the attribute names a mutation record can carry
MutationRecords == { { "alt" }, { "src" }, { "srcset" }, { "src", "srcset" } }

(***************************************************************************)
(* low-res descriptors, as sequences of characters.                         *)
(***************************************************************************)
Red == << "f", "f", "0", "0", "0", "0" >>
Green == << "0", "0", "f", "f", "0", "0" >>
Blue == << "0", "0", "0", "0", "f", "f" >>
Black == << "0", "0", "0", "0", "0", "0" >>
Short == << "f", "f", "0" >>
Sp == << " " >>

\* "ff0000"
DescOne == Red
\* "ff0000 00ff00 0000ff"
DescThree == Red \o Sp \o Green \o Sp \o Blue
\* "ff0000 00ff00 ff0 0000ff 000000"
DescFour == Red \o Sp \o Green \o Sp \o Short \o Sp \o Blue \o Sp \o Black
\* "ff0"
DescNone == Short

\* "ff0000  00ff00": two spaces between the tokens
DescDouble == Red \o Sp \o Sp \o Green
\* "ff0000 00ff00\t0000ff 000000": a tab between the second and third token
DescTab == Red \o Sp \o Green \o << "\t" >> \o Blue \o Sp \o Black
\* "ff0000 gggggg 00ff00 0000ff": a six-letter token that is not hexadecimal
DescWord == Red \o Sp \o << "g", "g", "g", "g", "g", "g" >> \o Sp \o Green
            \o Sp \o Blue
\* "ff00000": seven hexadecimal digits
DescLong == Red \o << "0" >>
\* "ff0000\r00ff00": a carriage return between the two tokens
DescCr == Red \o << "\r" >> \o Green

\* descriptors whose tokens are separated by single spaces and are colours
\* or shorter than a colour
PlainDescriptors == { DescNone, DescOne, DescThree, DescFour }
\* descriptors with other whitespace or other tokens
OddDescriptors == { DescDouble, DescTab, DescWord, DescLong, DescCr }

\* the low-res attribute: absent, or one of the descriptors
LowResValues ==
  { [present |-> FALSE, value |-> <<>>] }
  \cup { [present |-> TRUE, value |-> d] : d \in PlainDescriptors \cup OddDescriptors }

\* the characters /\s/ matches: space, tab, line feed, carriage return, form
\* feed, and the ones named here by their code point (vertical tab,
\* no-break space, the Unicode space separators, the line and paragraph
\* separators and the byte order mark)
OtherSpaces ==
  { "U+000B", "U+00A0", "U+1680", "U+2000", "U+2001", "U+2002", "U+2003",
    "U+2004", "U+2005", "U+2006", "U+2007", "U+2008", "U+2009", "U+200A",
    "U+2028", "U+2029", "U+202F", "U+205F", "U+3000", "U+FEFF" }
Whitespace == { " ", "\t", "\n", "\r", "\f" } \cup OtherSpaces
AlNum == { "0", "1", "2", "3", "4", "5", "6", "7", "8", "9",
           "a", "b", "c", "d", "e", "f", "g", "h", "i", "j", "k", "l", "m",
           "n", "o", "p", "q", "r", "s", "t", "u", "v", "w", "x", "y", "z" }

\* s.replace(/\s+/, ' '): the first run of whitespace becomes one space
ReplaceFirstWs(s) ==
  IF \A i \in 1..Len(s) : s[i] \notin Whitespace
    THEN s
    ELSE LET first == CHOOSE i \in 1..Len(s) :
                        /\ s[i] \in Whitespace
                        /\ \A j \in 1..(i - 1) : s[j] \notin Whitespace
             last == CHOOSE k \in first..Len(s) :
                        /\ \A j \in first..k : s[j] \in Whitespace
                        /\ (k = Len(s) \/ s[k + 1] \notin Whitespace)
         IN SubSeq(s, 1, first - 1) \o << " " >> \o SubSeq(s, last + 1, Len(s))

\* s.split(' '): the pieces between single spaces, empty pieces included
RECURSIVE SplitFrom(_, _, _)
SplitFrom(s, i, cur) ==
  IF i > Len(s) THEN << cur >>
  ELSE IF s[i] = " " THEN << cur >> \o SplitFrom(s, i + 1, <<>>)
  ELSE SplitFrom(s, i + 1, Append(cur, s[i]))

SplitSpaces(s) == SplitFrom(s, 1, <<>>)

\* p.match(/([a-z0-9]{6})/): six consecutive characters of [a-z0-9] anywhere
MatchesColor(p) ==
  \E i \in 1..Len(p) :
    /\ i + 5 <= Len(p)
    /\ \A j \in i..(i + 5) : p[j] \in AlNum

RECURSIVE FilterColors(_)
FilterColors(toks) ==
  IF toks = <<>> THEN <<>>
  ELSE IF MatchesColor(Head(toks))
    THEN << Head(toks) >> \o FilterColors(Tail(toks))
    ELSE FilterColors(Tail(toks))

\* the palette computed from the low-res attribute value
Palette(desc) == FilterColors(SplitSpaces(ReplaceFirstWs(desc)))

\* the palette of each low-res value of the model
PaletteOf == [l \in LowResValues |-> Palette(l.value)]

(***************************************************************************)
(* Source sets (../src/srcset) and the resolver.                            *)
(***************************************************************************)
\* srcsetFromSrc(src): a single candidate without a width
SrcsetFromSrc(src) == << [url |-> src, width |-> 0] >>

\* parseSrcset of a non-empty srcset attribute
ParseSrcset(attr) == attr

\* srcsetFromElement(element): the srcset attribute when it is non-empty,
\* the src attribute otherwise
SrcsetFromElement(srcsetAttr, srcAttr) ==
  IF srcsetAttr # <<>> THEN ParseSrcset(srcsetAttr) ELSE SrcsetFromSrc(srcAttr)

\* variant: the smallest declared width >= the target, else the smallest
\* declared width
SelectElseSmallest(srcset, width, dpr) ==
  LET target == width * dpr
      ok == { i \in 1..Len(srcset) : srcset[i].width >= target }
      pool == IF ok # {} THEN ok ELSE 1..Len(srcset)
      best == CHOOSE i \in pool : \A j \in pool : srcset[i].width <= srcset[j].width
  IN srcset[best].url

\* variant: the largest declared width that does not exceed the target,
\* else the smallest declared width
SelectBelow(srcset, width, dpr) ==
  LET target == width * dpr
      ok == { i \in 1..Len(srcset) : srcset[i].width <= target }
      pool == IF ok # {} THEN ok ELSE 1..Len(srcset)
      best == IF ok # {}
                THEN CHOOSE i \in pool : \A j \in pool : srcset[i].width >= srcset[j].width
                ELSE CHOOSE i \in pool : \A j \in pool : srcset[i].width <= srcset[j].width
  IN srcset[best].url

\* Srcset.select(width, dpr): smallest declared width >= width * dpr,
\* else the largest declared width
Select(srcset, width, dpr) ==
  LET target == width * dpr
      ok == { i \in 1..Len(srcset) : srcset[i].width >= target }
      pool == IF ok # {} THEN ok ELSE 1..Len(srcset)
      best == IF ok # {}
                THEN CHOOSE i \in pool : \A j \in pool : srcset[i].width <= srcset[j].width
                ELSE CHOOSE i \in pool : \A j \in pool : srcset[i].width >= srcset[j].width
  IN srcset[best].url

(***************************************************************************)
(* Placeholder construction (blurWithWorker).                               *)
(***************************************************************************)
\* the number of iterations of each of the two loops "i < dim", "j < dim"
\* with dim = Math.sqrt(n): the least k with k * k >= n
LoopsPerSide(n) ==
  CHOOSE k \in 0..n : k * k >= n /\ \A m \in 0..(k - 1) : m * m < n

\* variant: the loops never read past the palette
BlurNeverThrows(pixels) == FALSE

\* the nested loops read pixels[p] for p = 0 .. LoopsPerSide^2 - 1, and
\* pixels[p].trim() throws a TypeError at the first p >= pixels.length;
\* assert(dim % 1 == 0) only logs
BlurThrows(pixels) ==
  LoopsPerSide(Len(pixels)) * LoopsPerSide(Len(pixels)) > Len(pixels)

\* canvas.id = 'i-amphtml-c-' + Date.now()
CanvasId(clock) == clock

(***************************************************************************)
(* AmpImg: the decisions of the element's methods.                          *)
(***************************************************************************)
\* variant: the guard lets a width of 0 through
WidthGuardStrict(w) == w < 0

\* updateImageSrc_: if (this.getLayoutWidth() <= 0) return Promise.resolve()
WidthGuard(w) == w <= 0

\* updateImageSrc_: this.getViewport().getWidth() || this.win.screen.width
SelectWidth(vw) == IF vw # 0 THEN vw ELSE ScreenWidth

\* variant: an absent low-res attribute is read as an empty descriptor
LowResNeverThrows(low) == FALSE

\* updateImageSrc_: this.element.getAttribute('low-res').replace(...) throws a
\* TypeError when the attribute is absent (getAttribute returns null)
LowResThrows(low) == ~low.present

\* updateImageSrc_: if (src == this.img_.getAttribute('src')) return
SrcUnchanged(src, cur) == src = cur

\* variant: the selected URL is not written to the node
NewImgSrcKept(src, cur) == cur

\* updateImageSrc_: this.img_.setAttribute('src', src)
NewImgSrc(src, cur) == src

\* variant: initialize_ runs in every layoutCallback
InitializeAlways(img) == TRUE

\* initialize_: if (this.img_) return
InitializeRuns(img) == ~img

\* variant: the fallback attribute is ignored
AllowAlways(hasFallback) == TRUE

\* initialize_: this.allowImgLoadFallback_ = !this.element.hasAttribute('fallback')
AllowAfterInitialize(hasFallback) == ~hasFallback

\* variant: the flag is not cleared
AllowAfterLayoutKept(allow) == allow

\* layoutCallback: this.allowImgLoadFallback_ = false, inside if (allow)
AllowAfterLayout(allow) == IF allow THEN FALSE ELSE allow

\* variant: the handler does not re-throw
CatchSwallows(e) == [state |-> "resolved", err |-> ""]

\* layoutCallback: promise.catch(e => { this.onImgLoadingError_(); throw e; })
CatchOutcome(e) == [state |-> "rejected", err |-> e]

\* variant: the placeholder is not hidden
ErrorMutationKeepsPlaceholder(v) ==
  [ghost |-> TRUE, fallback |-> TRUE, placeholder |-> v.placeholder]

\* onImgLoadingError_: the mutation handed to vsync
ErrorMutation(v) ==
  [ghost |-> TRUE, fallback |-> TRUE, placeholder |-> FALSE]

\* updateImageSrc_: the mutation that cleans up the fallback
CleanupMutation(v) ==
  [ghost |-> FALSE, fallback |-> FALSE, placeholder |-> v.placeholder]

\* updateImageSrc_: the condition under which a resolved load schedules the
\* cleanup
NeedsCleanup(allow, ghost) == ~allow /\ ghost

\* variant: a src mutation wins over a srcset mutation
MutatedSrcsetSrcFirst(rec, srcsetAttr, srcAttr, cur) ==
  IF "src" \in rec THEN SrcsetFromSrc(srcAttr)
  ELSE IF "srcset" \in rec THEN SrcsetFromElement(srcsetAttr, srcAttr)
  ELSE cur

\* mutatedAttributesCallback: the source set after a mutation record
MutatedSrcset(rec, srcsetAttr, srcAttr, cur) ==
  IF "srcset" \in rec THEN SrcsetFromElement(srcsetAttr, srcAttr)
  ELSE IF "src" \in rec THEN SrcsetFromSrc(srcAttr)
  ELSE cur

\* mutatedAttributesCallback: the local "mutated"
Mutated(rec) == "srcset" \in rec \/ "src" \in rec

(***************************************************************************)
(* State.                                                                   *)
(***************************************************************************)
VARIABLES
  useNativeSrcset_,       \* this.useNativeSrcset_
  hasFallbackAttr,        \* the element carries the fallback attribute
  lowRes,                 \* the element's low-res attribute
  ssrSrc,                 \* src of the server-rendered <img>, NoAttr if none
  elSrc,                  \* the element's src attribute
  elSrcset,               \* the element's srcset attribute
  img_,                   \* this.img_ is set
  imgNodes,               \* image nodes initialize_ has created or adopted
  imgSrc,                 \* this.img_.getAttribute('src')
  srcset_,                \* this.srcset_, <<>> when null
  allowImgLoadFallback_,  \* this.allowImgLoadFallback_
  visual,                 \* ghost class of img_, fallback and placeholder shown
  vsyncQueue,             \* mutations handed to getVsync().mutate, not yet run
  sels,                   \* one record per createImg(src): preload, placeholder
  loads,                  \* one record per this.loadPromise(this.img_)
  worker,                 \* number of Worker objects created by getWorker
  workerErrors,           \* number of worker.onmessage calls that threw
  now,                    \* Date.now()
  errorCalls,             \* onImgLoadingError_ calls so far
  lastSel,                \* URL of the latest selection that reached line 251
  lastSettled,            \* how the latest load session settled
  lastRun,                \* the latest updateImageSrc_ run and what it did
  development,            \* getMode().development
  template,               \* the side of the conflict in TEMPLATE that is built
  sharePill,              \* SystemLayer: this.sharePillContainerNode_ is set
  isBuilt_,               \* SystemLayer: this.isBuilt_
  root_,                  \* SystemLayer: this.root_, 0 when null, else its id
  layerEls,               \* elements SystemLayer.build has created
  listeners,              \* click listeners on the layer's shadow root
  subscriptions,          \* subscriptions of the layer to the store
  returned,               \* the roots build has returned, call by call
  dispatched,             \* the values dispatched with Action.TOGGLE_MUTED
  layerQueue,             \* mutations the layer gave to vsync_.mutate, not run
  messagedisplay,         \* the layer's messagedisplay attribute, "" if unset
  hideTimers              \* the timers of hideAfterTimeout_, in arming order

cfgVars == << useNativeSrcset_, hasFallbackAttr, lowRes, ssrSrc >>
attrVars == << elSrc, elSrcset >>
elemVars == << img_, imgNodes, imgSrc, srcset_, allowImgLoadFallback_ >>
ghostVars == << errorCalls, lastSel, lastSettled >>
buildVars == << isBuilt_, root_, listeners, subscriptions, returned >>
messageVars == << dispatched, messagedisplay, hideTimers >>
envVars == << development, template >>
layerVars == << envVars, buildVars, layerEls, sharePill, layerQueue,
                messageVars >>
vars == << cfgVars, attrVars, elemVars, visual, vsyncQueue, sels, loads,
           worker, workerErrors, now, ghostVars, lastRun, layerVars >>

\* what a run of updateImageSrc_ records about itself: its caller, the layout
\* width it read, the path it took, whether the URL it picked was the node's
\* src already, what it changed and what it returned
NoRun ==
  [op |-> "none", outcome |-> "", w |-> 0, same |-> FALSE,
   srcWritten |-> FALSE, appended |-> 0, fetches |-> 0, newLoads |-> 0,
   ret |-> ""]

\* loadPromise: const throttle = THROTTLE + Math.floor(Math.random() * THROTTLE)
Throttle(rnd) == THROTTLE + rnd

\* a placeholder-pipeline record for a run that got as far as createImg:
\* the preloaded image and its loadPromise (start, throttle, the time of its
\* load event and the delay of the timer set then), and, when
\* blurWithWorker was called with the palette pixels, the canvas, its job
\* and its timers.  A time that has not been read yet is -1.
NewSel(url, applied, built, clock, pixels, rnd) ==
  [url |-> url, applied |-> applied, built |-> built, pre |-> "loading",
   canvasId |-> CanvasId(clock), canvasIn |-> built, canvasOpacity |-> 0,
   canvasBlurred |-> FALSE, job |-> IF built THEN "posted" ELSE "none",
   timer |-> "none", raf |-> "none", indicator |-> built,
   container |-> built, containerOpaque |-> FALSE,
   pixels |-> pixels, start |-> clock, throttle |-> Throttle(rnd),
   loadedAt |-> -1, delay |-> -1, revealedAt |-> -1]

\* a load session of this.loadPromise(this.img_)
NewLoad(first, catch) ==
  [state |-> "pending", err |-> "", first |-> first, catch |-> catch,
   ret |-> "pending", retErr |-> "", handled |-> FALSE]

\* the children updateImageSrc_ has appended to the element and that are
\* still attached, in document order
RECURSIVE Children(_)
Children(ss) ==
  IF ss = <<>> THEN <<>>
  ELSE LET s == Head(ss)
       IN (IF s.canvasIn THEN << [kind |-> "canvas", id |-> s.canvasId] >> ELSE <<>>)
          \o (IF s.indicator THEN << [kind |-> "indicator", id |-> 0] >> ELSE <<>>)
          \o (IF s.container THEN << [kind |-> "container", id |-> 0] >> ELSE <<>>)
          \o Children(Tail(ss))

(***************************************************************************)
(* updateImageSrc_, as a function of the state it reads.                    *)
(***************************************************************************)
UpdateImageSrc(native, low, srcsetCur, imgSrcCur, w, vw, dpr, clock, rnd) ==
  LET none == [outcome |-> "zero", url |-> NoAttr, imgSrc |-> imgSrcCur,
               sel |-> <<>>, load |-> FALSE, getWorker |-> FALSE,
               ret |-> "resolved"]
  IN
  IF WidthGuard(w) THEN none
  ELSE IF native THEN
    [none EXCEPT !.outcome = "native", !.load = TRUE, !.ret = "pending"]
  ELSE
    LET src == Select(srcsetCur, SelectWidth(vw), dpr) IN
    IF LowResThrows(low) THEN
      \* null.replace(...): TypeError before createImg
      [none EXCEPT !.outcome = "throwLowRes", !.url = src, !.ret = "threw"]
    ELSE
      LET palette == PaletteOf[low] IN
      IF SrcUnchanged(src, imgSrcCur) THEN
        \* createImg(src) has already started a fetch of src
        [none EXCEPT !.outcome = "noop", !.url = src,
                     !.sel = << NewSel(src, FALSE, FALSE, clock, <<>>, rnd) >>]
      ELSE IF BlurThrows(palette) THEN
        \* the src is written and the worker fetched, then blurWithWorker
        \* throws: nothing is appended and no load promise is created
        [none EXCEPT !.outcome = "throwShape", !.url = src,
                     !.imgSrc = NewImgSrc(src, imgSrcCur),
                     !.sel = << NewSel(src, TRUE, FALSE, clock, palette, rnd) >>,
                     !.getWorker = TRUE, !.ret = "threw"]
      ELSE
        [none EXCEPT !.outcome = "load", !.url = src,
                     !.imgSrc = NewImgSrc(src, imgSrcCur),
                     !.sel = << NewSel(src, TRUE, TRUE, clock, palette, rnd) >>,
                     !.getWorker = TRUE, !.load = TRUE, !.ret = "pending"]

\* variant: every call creates a worker
WorkerAfterFresh(count, called) == IF called THEN count + 1 ELSE count

\* getWorker: the worker is created on the first call only
WorkerAfter(count, called) == IF called /\ count = 0 THEN 1 ELSE count

\* the URL of the latest selection that reached the comparison with the
\* current src
SelAfter(r, cur) ==
  IF r.outcome \in { "noop", "throwShape", "load" } THEN r.url ELSE cur

(***************************************************************************)
(* Initial state: the element after construction (and buildCallback).       *)
(***************************************************************************)
Init ==
  /\ useNativeSrcset_ \in BOOLEAN
  /\ hasFallbackAttr \in BOOLEAN
  /\ lowRes \in LowResValues
  /\ ssrSrc \in SsrValues
  /\ elSrc = "c.jpg"
  /\ elSrcset \in SrcsetValues
  /\ img_ = FALSE
  /\ imgNodes = 0
  /\ imgSrc = NoAttr
  /\ srcset_ = <<>>
  /\ allowImgLoadFallback_ = TRUE
  /\ visual = [ghost |-> FALSE, fallback |-> FALSE, placeholder |-> TRUE]
  /\ vsyncQueue = <<>>
  /\ sels = <<>>
  /\ loads = <<>>
  /\ worker = 0
  /\ workerErrors = 0
  /\ now = 0
  /\ errorCalls = 0
  /\ lastSel = NoAttr
  /\ lastSettled = "none"
  /\ lastRun = NoRun
  /\ development \in BOOLEAN
  /\ template \in Sides
  /\ sharePill = FALSE
  /\ isBuilt_ = FALSE
  /\ root_ = 0
  /\ layerEls = 0
  /\ listeners = 0
  /\ subscriptions = 0
  /\ returned = <<>>
  /\ dispatched = <<>>
  /\ layerQueue = <<>>
  /\ messagedisplay = ""
  /\ hideTimers = <<>>

(***************************************************************************)
(* layoutCallback: initialize_, updateImageSrc_, the one-time catch.        *)
(***************************************************************************)
\* variant: initialize_ parses the element's attributes whatever is cached
InitSrcsetReparse(native, cur, srcsetAttr, srcAttr) ==
  IF ~native THEN SrcsetFromElement(srcsetAttr, srcAttr) ELSE cur

\* initialize_: the source set after it
InitSrcset(native, cur, srcsetAttr, srcAttr) ==
  IF ~native /\ cur = <<>> THEN SrcsetFromElement(srcsetAttr, srcAttr) ELSE cur

\* initialize_: the src of the image node after it; a server-rendered node
\* is adopted, and in native mode src is propagated from the element
InitImgSrc(native, ssr, srcAttr) == IF native THEN srcAttr ELSE ssr

LayoutCallback(w, vw, dpr, rnd) ==
  LET first == InitializeRuns(img_)
      srcset1 == IF first THEN InitSrcset(useNativeSrcset_, srcset_, elSrcset, elSrc)
                 ELSE srcset_
      allow1 == IF first THEN AllowAfterInitialize(hasFallbackAttr)
                ELSE allowImgLoadFallback_
      imgSrc1 == IF first THEN InitImgSrc(useNativeSrcset_, ssrSrc, elSrc) ELSE imgSrc
      r == UpdateImageSrc(useNativeSrcset_, lowRes, srcset1, imgSrc1, w, vw, dpr,
                          now, rnd)
      threw == r.ret = "threw"
      catch == allow1 /\ ~threw
      sels1 == sels \o r.sel
  IN
  /\ Len(sels) + Len(r.sel) <= MaxSelections
  /\ Len(loads) + (IF r.load THEN 1 ELSE 0) <= MaxLoads
  /\ img_' = TRUE
  /\ imgNodes' = IF first THEN imgNodes + 1 ELSE imgNodes
  /\ srcset_' = srcset1
  /\ imgSrc' = r.imgSrc
  /\ allowImgLoadFallback_' = IF threw THEN allow1 ELSE AllowAfterLayout(allow1)
  /\ sels' = sels1
  /\ loads' = IF r.load
                THEN Append(loads, NewLoad(first, catch))
                ELSE loads
  /\ worker' = WorkerAfter(worker, r.getWorker)
  /\ lastSel' = SelAfter(r, lastSel)
  /\ lastRun' = [op |-> "layout", outcome |-> r.outcome, w |-> w,
                 same |-> (r.url = imgSrc1 /\ r.url # NoAttr),
                 srcWritten |-> (r.imgSrc # imgSrc1),
                 appended |-> Len(Children(sels1)) - Len(Children(sels)),
                 fetches |-> Len(sels1) - Len(sels),
                 newLoads |-> IF r.load THEN 1 ELSE 0,
                 ret |-> r.ret]
  /\ UNCHANGED << layerVars, cfgVars, attrVars, visual, vsyncQueue, workerErrors, now,
                  errorCalls, lastSettled >>

(***************************************************************************)
(* mutatedAttributesCallback, after the host has changed the attributes     *)
(* named by the mutation record.                                            *)
(***************************************************************************)
MutatedAttributesCallback(rec, newSrc, newSrcset, w, vw, dpr, rnd) ==
  LET src1 == IF "src" \in rec THEN newSrc ELSE elSrc
      srcsetAttr1 == IF "srcset" \in rec THEN newSrcset ELSE elSrcset
      srcset1 == IF useNativeSrcset_ THEN srcset_
                 ELSE MutatedSrcset(rec, srcsetAttr1, src1, srcset_)
      reselect == ~useNativeSrcset_ /\ Mutated(rec) /\ img_
      r == UpdateImageSrc(useNativeSrcset_, lowRes, srcset1, imgSrc, w, vw, dpr,
                          now, rnd)
      \* native mode: propagateAttributes copies a mutated src to the node
      imgSrc1 == IF reselect THEN r.imgSrc
                 ELSE IF useNativeSrcset_ /\ img_ /\ "src" \in rec THEN src1
                 ELSE imgSrc
      sels1 == IF reselect THEN sels \o r.sel ELSE sels
      load == reselect /\ r.load
  IN
  /\ rec # {}
  /\ elSrc' = src1
  /\ elSrcset' = srcsetAttr1
  /\ srcset_' = srcset1
  /\ Len(sels1) <= MaxSelections
  /\ Len(loads) + (IF load THEN 1 ELSE 0) <= MaxLoads
  /\ imgSrc' = imgSrc1
  /\ sels' = sels1
  /\ loads' = IF load THEN Append(loads, NewLoad(FALSE, FALSE)) ELSE loads
  /\ worker' = IF reselect THEN WorkerAfter(worker, r.getWorker) ELSE worker
  /\ lastSel' = IF reselect THEN SelAfter(r, lastSel) ELSE lastSel
  /\ lastRun' = IF reselect
                  THEN [op |-> "mutate", outcome |-> r.outcome, w |-> w,
                        same |-> (r.url = imgSrc /\ r.url # NoAttr),
                        srcWritten |-> (imgSrc1 # imgSrc),
                        appended |-> Len(Children(sels1)) - Len(Children(sels)),
                        fetches |-> Len(sels1) - Len(sels),
                        newLoads |-> IF load THEN 1 ELSE 0,
                        ret |-> r.ret]
                  ELSE lastRun
  /\ UNCHANGED << layerVars, cfgVars, img_, imgNodes, allowImgLoadFallback_, visual,
                  vsyncQueue, workerErrors, now, errorCalls, lastSettled >>

(***************************************************************************)
(* Settlement of this.loadPromise(this.img_) and the handlers chained on    *)
(* it, which run in the same turn.                                          *)
(***************************************************************************)
LoadResolves(i) ==
  LET cleanup == NeedsCleanup(allowImgLoadFallback_, visual.ghost) IN
  /\ loads[i].state = "pending"
  /\ loads' = [loads EXCEPT ![i].state = "resolved", ![i].ret = "resolved"]
  /\ vsyncQueue' = IF cleanup THEN Append(vsyncQueue, "cleanup") ELSE vsyncQueue
  /\ lastSettled' = "resolved"
  /\ UNCHANGED << layerVars, cfgVars, attrVars, elemVars, visual, sels, worker,
                  workerErrors, now, errorCalls, lastSel, lastRun >>

LoadRejects(i, e) ==
  LET caught == loads[i].catch
      out == IF caught THEN CatchOutcome(e) ELSE [state |-> "rejected", err |-> e]
  IN
  /\ loads[i].state = "pending"
  /\ loads' = [loads EXCEPT ![i].state = "rejected", ![i].err = e,
                            ![i].ret = out.state, ![i].retErr = out.err,
                            ![i].handled = caught]
  /\ vsyncQueue' = IF caught THEN Append(vsyncQueue, "error") ELSE vsyncQueue
  /\ errorCalls' = IF caught THEN errorCalls + 1 ELSE errorCalls
  /\ lastSettled' = "rejected"
  /\ UNCHANGED << layerVars, cfgVars, attrVars, elemVars, visual, sels, worker,
                  workerErrors, now, lastSel, lastRun >>

(***************************************************************************)
(* A vsync frame: every queued mutation runs, in order.                     *)
(***************************************************************************)
RunMutation(m, v) == IF m = "error" THEN ErrorMutation(v) ELSE CleanupMutation(v)

RECURSIVE RunQueue(_, _)
RunQueue(q, v) == IF q = <<>> THEN v ELSE RunQueue(Tail(q), RunMutation(Head(q), v))

VsyncFrame ==
  /\ vsyncQueue # <<>>
  /\ visual' = RunQueue(vsyncQueue, visual)
  /\ vsyncQueue' = <<>>
  /\ UNCHANGED << layerVars, cfgVars, attrVars, elemVars, sels, loads, worker,
                  workerErrors, now, ghostVars, lastRun >>

(***************************************************************************)
(* The preloaded image of a selection and the module-level loadPromise.     *)
(***************************************************************************)
\* variant: the whole throttle is waited for after the load event
DwellDelayFull(throttle, elapsed) == throttle

\* loadPromise: const time = Math.max(0, throttle - (Date.now() - start))
DwellDelay(throttle, elapsed) ==
  IF throttle - elapsed > 0 THEN throttle - elapsed ELSE 0

\* el.onload: setTimeout(() => resolve(el), time)
ImgOnload(k) ==
  /\ sels[k].pre = "loading"
  /\ sels' = [sels EXCEPT ![k].pre = "waiting", ![k].loadedAt = now,
                          ![k].delay = DwellDelay(sels[k].throttle,
                                                  now - sels[k].start)]
  /\ UNCHANGED << layerVars, cfgVars, attrVars, elemVars, visual, vsyncQueue, loads,
                  worker, workerErrors, now, ghostVars, lastRun >>

\* variant: an error event settles the promise, so its then-callbacks run
ImgOnerrorSettles(k) ==
  /\ sels[k].pre = "loading"
  /\ sels' = [sels EXCEPT ![k].pre = "error",
                          ![k].timer = IF sels[k].built THEN "armed" ELSE "none",
                          ![k].raf = IF sels[k].built THEN "armed" ELSE "none",
                          ![k].canvasOpacity = IF sels[k].built THEN 1 ELSE 0,
                          ![k].revealedAt = now]
  /\ UNCHANGED << layerVars, cfgVars, attrVars, elemVars, visual, vsyncQueue, loads,
                  worker, workerErrors, now, ghostVars, lastRun >>

\* the preloaded image fails: loadPromise has no error handler
ImgOnerror(k) ==
  /\ sels[k].pre = "loading"
  /\ sels' = [sels EXCEPT ![k].pre = "error"]
  /\ UNCHANGED << layerVars, cfgVars, attrVars, elemVars, visual, vsyncQueue, loads,
                  worker, workerErrors, now, ghostVars, lastRun >>

\* variant: the canvas is not revealed
RevealedHidden(s, clock) ==
  IF s.built
    THEN [s EXCEPT !.pre = "resolved", !.timer = "armed", !.raf = "armed",
                   !.revealedAt = clock]
    ELSE [s EXCEPT !.pre = "resolved"]

\* what whenImageLoaded's two then-callbacks do to a selection: blurWithWorker
\* reveals the canvas and arms its removal, updateImageSrc_ requests a frame
Revealed(s, clock) ==
  IF s.built
    THEN [s EXCEPT !.pre = "resolved", !.canvasOpacity = 1,
                   !.timer = "armed", !.raf = "armed", !.revealedAt = clock]
    ELSE [s EXCEPT !.pre = "resolved"]

\* the throttle timer of loadPromise fires: whenImageLoaded resolves
ThrottleTimer(k) ==
  /\ sels[k].pre = "waiting"
  /\ sels' = [sels EXCEPT ![k] = Revealed(sels[k], now)]
  /\ UNCHANGED << layerVars, cfgVars, attrVars, elemVars, visual, vsyncQueue, loads,
                  worker, workerErrors, now, ghostVars, lastRun >>

\* requestAnimationFrame callback of updateImageSrc_
AnimationFrame(k) ==
  /\ sels[k].raf = "armed"
  /\ sels' = [sels EXCEPT ![k].raf = "fired", ![k].containerOpaque = TRUE,
                          ![k].indicator = FALSE]
  /\ UNCHANGED << layerVars, cfgVars, attrVars, elemVars, visual, vsyncQueue, loads,
                  worker, workerErrors, now, ghostVars, lastRun >>

\* setTimeout(() => canvas.remove(), 500)
RemovalTimer(k) ==
  /\ sels[k].timer = "armed"
  /\ sels' = [sels EXCEPT ![k].timer = "fired", ![k].canvasIn = FALSE]
  /\ UNCHANGED << layerVars, cfgVars, attrVars, elemVars, visual, vsyncQueue, loads,
                  worker, workerErrors, now, ghostVars, lastRun >>

(***************************************************************************)
(* The blur worker's response (worker.onmessage).                           *)
(***************************************************************************)
\* document.getElementById(id): the first canvas in document order with
\* that id, 0 when there is none
GetElementById(ss, id) ==
  LET hits == { j \in 1..Len(ss) : ss[j].canvasIn /\ ss[j].canvasId = id }
  IN IF hits = {} THEN 0 ELSE CHOOSE j \in hits : \A h \in hits : j <= h

\* the oldest job the worker has not answered yet
NextJob(ss) ==
  LET posted == { j \in 1..Len(ss) : ss[j].job = "posted" }
  IN IF posted = {} THEN 0 ELSE CHOOSE j \in posted : \A h \in posted : j <= h

WorkerResponds ==
  LET k == NextJob(sels)
      c == GetElementById(sels, sels[k].canvasId)
      answered == [sels EXCEPT ![k].job = "done"]
  IN
  /\ k # 0
  /\ IF c = 0
       THEN \* canvas is null: canvas.getContext throws a TypeError
            /\ sels' = answered
            /\ workerErrors' = workerErrors + 1
       ELSE /\ sels' = [answered EXCEPT ![c].canvasBlurred = TRUE,
                                        ![c].canvasOpacity = 1]
            /\ workerErrors' = workerErrors
  /\ UNCHANGED << layerVars, cfgVars, attrVars, elemVars, visual, vsyncQueue, loads,
                  worker, now, ghostVars, lastRun >>

\* the clock advances
Tick ==
  /\ now < MaxClock
  /\ now' = now + 1
  /\ UNCHANGED << layerVars, cfgVars, attrVars, elemVars, visual, vsyncQueue, sels, loads,
                  worker, workerErrors, ghostVars, lastRun >>

(***************************************************************************)
(* SystemLayer (src/unnamed/part_000): build, the handlers of the store's   *)
(* updates, logAll, the click listener of the mute and unmute controls, the *)
(* message and its hide timers.  Of the layer's attributes only             *)
(* messagedisplay is followed; the classes and attributes that mirror the   *)
(* store's state are not, nor are the progress bar and the developer log.   *)
(***************************************************************************)
\* the variables of the image element, which the layer never touches
ImgState == << cfgVars, attrVars, elemVars, visual, vsyncQueue, sels, loads,
               worker, workerErrors, ghostVars, lastRun >>

\* variant: build never takes the early return
BuildGuardNever(isBuilt) == FALSE

\* build: if (this.isBuilt_) return this.getRoot()
BuildGuard(isBuilt) == isBuilt

\* build: the root div, the rendered layer and the progress bar; in
\* development mode the developer buttons and the developer log
ElementsOfBuild(dev) == 3 + (IF dev THEN 2 ELSE 0)

\* onDesktopStateUpdate_(isDesktop) calls buildSharePill_ when isDesktop;
\* buildSharePill_ returns when the pill exists, else it makes the pill
\* container and the share widget
SharePill(isDesktop, exists) == IF isDesktop /\ ~exists THEN 2 ELSE 0

\* initializeListeners_: one click listener on the shadow root
ListenersOfBuild == 1

\* initializeListeners_ subscribes to AD_STATE, BOOKEND_STATE,
\* CAN_SHOW_SHARING_UIS, DESKTOP_STATE, STORY_HAS_AUDIO_STATE, MUTED_STATE
\* and CURRENT_PAGE_INDEX, and build to CAN_SHOW_SYSTEM_LAYER_BUTTONS
SubscriptionsOfBuild == 7 + 1

\* the mutations the handlers of the subscriptions with callToInitialize
\* hand to vsync when the store calls them at once: sharing UIs, desktop,
\* story audio, muted, page index (the buttons handler writes directly)
InitialMutations == << "state", "state", "state", "state", "state" >>

\* SystemLayer.build(pageIds); isDesktop is the store's DESKTOP_STATE
Build(isDesktop) ==
  /\ Len(returned) < MaxBuilds
  /\ IF BuildGuard(isBuilt_)
       THEN /\ returned' = Append(returned, root_)
            /\ UNCHANGED << isBuilt_, root_, layerEls, sharePill, listeners,
                            subscriptions, layerQueue >>
       ELSE /\ isBuilt_' = TRUE
            /\ root_' = layerEls + 1
            /\ layerEls' = layerEls + ElementsOfBuild(development)
                           + SharePill(isDesktop, sharePill)
            /\ sharePill' = (sharePill \/ isDesktop)
            /\ listeners' = listeners + ListenersOfBuild
            /\ subscriptions' = subscriptions + SubscriptionsOfBuild
            /\ layerQueue' = layerQueue \o InitialMutations
            /\ returned' = Append(returned, layerEls + 1)
  /\ UNCHANGED << envVars, messageVars, now, ImgState >>

\* the store calls a subscribed handler that hands one mutation to vsync
StateUpdate ==
  /\ subscriptions > 0
  /\ Len(layerQueue) < MaxPending
  /\ layerQueue' = Append(layerQueue, "state")
  /\ UNCHANGED << envVars, buildVars, layerEls, sharePill, messageVars,
                  now, ImgState >>

\* onAdStateUpdate_
OnAdStateUpdate == StateUpdate

\* onCanShowSharingUisUpdate_
OnCanShowSharingUisUpdate == StateUpdate

\* onStoryHasAudioStateUpdate_
OnStoryHasAudioStateUpdate == StateUpdate

\* onMutedStateUpdate_
OnMutedStateUpdate == StateUpdate

\* onPageIndexUpdate_
OnPageIndexUpdate == StateUpdate

\* onDesktopStateUpdate_(isDesktop)
OnDesktopStateUpdate(isDesktop) ==
  /\ subscriptions > 0
  /\ Len(layerQueue) < MaxPending
  /\ layerEls' = layerEls + SharePill(isDesktop, sharePill)
  /\ sharePill' = (sharePill \/ isDesktop)
  /\ layerQueue' = Append(layerQueue, "state")
  /\ UNCHANGED << envVars, buildVars, messageVars, now, ImgState >>

DesktopStateUpdate == \E isDesktop \in BOOLEAN : OnDesktopStateUpdate(isDesktop)

\* onBookendStateUpdate_ and the handler of CAN_SHOW_SYSTEM_LAYER_BUTTONS
\* toggle a class of the layer at once: nothing that is followed changes
OnBookendStateUpdate ==
  /\ subscriptions > 0
  /\ UNCHANGED vars

\* logAll(logEntries): nothing outside development mode, else one mutation
\* that writes the entries to the developer logs
LogAll ==
  /\ development
  /\ Len(layerQueue) < MaxPending
  /\ layerQueue' = Append(layerQueue, "log")
  /\ UNCHANGED << envVars, buildVars, layerEls, sharePill, messageVars,
                  now, ImgState >>

\* what one run of onMuteAudioClick_ (muted) or onUnmuteAudioClick_ adds to
\* the vsync queue: the mutation of onMutedStateUpdate_ when the store
\* notifies its MUTED_STATE subscriber, then the mutation that shows the
\* message
ClickMutations(notified) ==
  (IF notified THEN << "state" >> ELSE <<>>) \o << "show" >>

RECURSIVE Times(_, _)
\* the sequence q repeated n times
Times(q, n) == IF n <= 0 THEN <<>> ELSE q \o Times(q, n - 1)

\* onMuteAudioClick_ (muted = TRUE) and onUnmuteAudioClick_ (FALSE), run by
\* every click listener of the shadow root: TOGGLE_MUTED is dispatched with
\* muted and the mutation handed to vsync
OnAudioClick(muted, notified) ==
  /\ Len(dispatched) + listeners <= MaxClicks
  /\ dispatched' = dispatched \o Times(<< muted >>, listeners)
  /\ layerQueue' = layerQueue \o Times(ClickMutations(notified), listeners)
  /\ UNCHANGED << envVars, buildVars, layerEls, sharePill, messagedisplay,
                  hideTimers, now, ImgState >>

\* onMuteAudioClick_
OnMuteAudioClick(notified) == OnAudioClick(TRUE, notified)

\* onUnmuteAudioClick_
OnUnmuteAudioClick(notified) == OnAudioClick(FALSE, notified)

\* onShareClick_ and onInfoClick_ read the store's menu and dialog state and
\* dispatch its negation: nothing that is followed changes
OnOtherClick == UNCHANGED vars

\* matches(target, '.cls, .cls *'): the target or one of its ancestors has
\* the class
Matches(target, cls) == \E i \in 1..Len(target) : target[i] = cls

\* the click listener of initializeListeners_: the first of the mute,
\* unmute, share and info selectors the target matches names the handler
Route(target) ==
  IF Matches(target, "mute") THEN "mute"
  ELSE IF Matches(target, "unmute") THEN "unmute"
  ELSE IF Matches(target, "share") THEN "share"
  ELSE IF Matches(target, "info") THEN "info"
  ELSE "none"

\* a click on the element target of the built layer
Click(target, notified) ==
  /\ listeners > 0
  /\ target \in Elements(template)
  /\ LET handler == Route(target) IN
       IF handler = "mute" THEN OnMuteAudioClick(notified)
       ELSE IF handler = "unmute" THEN OnUnmuteAudioClick(notified)
       ELSE OnOtherClick

ClickLayer ==
  \E target \in TemplateHead \cup TemplateUpstream, notified \in BOOLEAN :
    Click(target, notified)

\* hideAfterTimeout_: this.timer_.delay(() => this.hideInteral_(), hideTimeout)
HideAfterTimeout(timers, clock) ==
  Append(timers, [armedAt |-> clock, state |-> "armed"])

RECURSIVE RunLayerQueue(_, _, _)
\* the queued mutations run in order; "show" sets messagedisplay and arms a
\* hide timer, "hide" sets messagedisplay to noshow; "state" and "log" write
\* classes, attributes and log entries that are not followed
RunLayerQueue(q, st, clock) ==
  IF q = <<>> THEN st
  ELSE LET m == Head(q)
           st1 == IF m = "show"
                    THEN [md |-> "show", timers |-> HideAfterTimeout(st.timers, clock)]
                  ELSE IF m = "hide"
                    THEN [st EXCEPT !.md = "noshow"]
                  ELSE st
       IN RunLayerQueue(Tail(q), st1, clock)

\* a vsync frame of the layer runs every queued mutation
LayerFrame ==
  /\ layerQueue # <<>>
  /\ LET st == RunLayerQueue(layerQueue,
                             [md |-> messagedisplay, timers |-> hideTimers], now)
     IN /\ messagedisplay' = st.md
        /\ hideTimers' = st.timers
  /\ layerQueue' = <<>>
  /\ UNCHANGED << envVars, buildVars, layerEls, sharePill, dispatched, now,
                  ImgState >>

\* a timer of timer_.delay(cb, 1500) may fire
HideDue(t, clock) == clock >= t.armedAt + HideTimeout

\* hideInteral_: nothing when the layer is not built, else the mutation
\* that hides the message is handed to vsync
HideInteral(isBuilt, q) == IF ~isBuilt THEN q ELSE Append(q, "hide")

\* a hide timer fires and calls hideInteral_
HideTimerFires ==
  \E i \in 1..Len(hideTimers) :
    /\ hideTimers[i].state = "armed"
    /\ HideDue(hideTimers[i], now)
    /\ hideTimers' = [hideTimers EXCEPT ![i].state = "fired"]
    /\ layerQueue' = HideInteral(isBuilt_, layerQueue)
    /\ UNCHANGED << envVars, buildVars, layerEls, sharePill, dispatched,
                    messagedisplay, now, ImgState >>

\* time passes for the layer
Elapse ==
  \E t \in LayerClock :
    /\ t > now
    /\ now' = t
    /\ UNCHANGED << layerVars, ImgState >>

BuildLayer == \E isDesktop \in BOOLEAN : Build(isDesktop)

\* the store changes one of the states the layer has subscribed to
StoreUpdate ==
  \/ OnAdStateUpdate
  \/ OnBookendStateUpdate
  \/ OnCanShowSharingUisUpdate
  \/ DesktopStateUpdate
  \/ OnStoryHasAudioStateUpdate
  \/ OnMutedStateUpdate
  \/ OnPageIndexUpdate


(***************************************************************************)
(* The specification.                                                       *)
(***************************************************************************)
\* the selection inputs an operation reads: none matter when it does not
\* select
InputsWhen(selects) ==
  IF selects THEN LayoutWidths \X Contexts ELSE { << 0, << 0, 1 >> >> }

Layout ==
  \E in \in InputsWhen(TRUE) :
    /\ (WidthGuard(in[1]) => in[2] = << 300, 1 >>)
    /\ LayoutCallback(in[1], in[2][1], in[2][2], 0)

Mutation ==
  \E rec \in MutationRecords :
    \E newSrc \in (IF "src" \in rec THEN SrcValues ELSE { elSrc }),
       newSrcset \in (IF "srcset" \in rec THEN SrcsetValues ELSE { elSrcset }),
       in \in InputsWhen(~useNativeSrcset_ /\ Mutated(rec) /\ img_) :
      /\ (WidthGuard(in[1]) => in[2] \in { << 300, 1 >>, << 0, 1 >> })
      /\ MutatedAttributesCallback(rec, newSrc, newSrcset, in[1], in[2][1],
                                   in[2][2], 0)

LoadSucceeds == \E i \in 1..Len(loads) : LoadResolves(i)

LoadFails == \E i \in 1..Len(loads), e \in Errors : LoadRejects(i, e)

PreloadLoads == \E k \in 1..Len(sels) : ImgOnload(k)

PreloadFails == \E k \in 1..Len(sels) : ImgOnerror(k)

ThrottleElapses == \E k \in 1..Len(sels) : ThrottleTimer(k)

FrameRuns == \E k \in 1..Len(sels) : AnimationFrame(k)

CanvasRemoved == \E k \in 1..Len(sels) : RemovalTimer(k)

Next ==
  \/ Layout
  \/ Mutation
  \/ LoadSucceeds
  \/ LoadFails
  \/ VsyncFrame
  \/ PreloadLoads
  \/ PreloadFails
  \/ ThrottleElapses
  \/ FrameRuns
  \/ CanvasRemoved
  \/ WorkerResponds
  \/ Tick
  \/ BuildLayer
  \/ StoreUpdate
  \/ LogAll
  \/ ClickLayer
  \/ LayerFrame
  \/ HideTimerFires
  \/ Elapse

Spec == Init /\ [][Next]_vars

\* The element controller alone: layouts, mutations, load sessions and vsync
\* frames.  The placeholder pipeline's steps change only sels, workerErrors
\* and now, which the controller's steps never read back.
NextElement ==
  \/ Layout
  \/ Mutation
  \/ LoadSucceeds
  \/ LoadFails
  \/ VsyncFrame

\* Elements without a low-res attribute, with a 3-colour and with a 4-colour
\* palette; the native-srcset mode reads neither low-res nor the adopted
\* node's src, so one value of each stands for all
InitElement ==
  /\ Init
  /\ ~development
  /\ template = "HEAD"
  /\ lowRes.value \in { <<>>, DescThree, DescFour }
  /\ useNativeSrcset_ => (lowRes.value = DescFour /\ ssrSrc = NoAttr)

SpecElement == InitElement /\ [][NextElement]_vars

\* Layouts and attribute mutations alone: what the callbacks cache and
\* select, whatever becomes of the loads they start.
NextAttributes ==
  \/ Layout
  \/ Mutation

SpecAttributes == InitElement /\ [][NextAttributes]_vars

\* The placeholder pipeline of an element that is laid out with a positive
\* width: selections made by layouts and mutations, the preloaded image, the
\* timers and the blur worker.  Load sessions and vsync frames change only
\* loads, vsyncQueue, visual and the fallback counters, which the pipeline's
\* steps never read.
VisibleLayout ==
  \E in \in InputsWhen(TRUE) :
    /\ ~WidthGuard(in[1])
    /\ LayoutCallback(in[1], in[2][1], in[2][2], 0)

VisibleMutation ==
  \E rec \in MutationRecords :
    \E newSrc \in (IF "src" \in rec THEN SrcValues ELSE { elSrc }),
       newSrcset \in (IF "srcset" \in rec THEN SrcsetValues ELSE { elSrcset }),
       in \in InputsWhen(Mutated(rec) /\ img_) :
      /\ (Mutated(rec) /\ img_) => ~WidthGuard(in[1])
      /\ MutatedAttributesCallback(rec, newSrc, newSrcset, in[1], in[2][1],
                                   in[2][2], 0)

NextPlaceholder ==
  \/ VisibleLayout
  \/ VisibleMutation
  \/ PreloadLoads
  \/ PreloadFails
  \/ ThrottleElapses
  \/ FrameRuns
  \/ CanvasRemoved
  \/ WorkerResponds
  \/ Tick

InitPlaceholder ==
  /\ Init
  /\ ~development
  /\ template = "HEAD"
  /\ ~useNativeSrcset_
  /\ ~hasFallbackAttr
  /\ lowRes.present
  /\ lowRes.value \in PlainDescriptors
  /\ ssrSrc = NoAttr

SpecPlaceholder == InitPlaceholder /\ [][NextPlaceholder]_vars

\* Selections alone: what layouts and mutations with a positive width pick
\* and pass on, for every low-res descriptor.
NextSelection ==
  \/ VisibleLayout
  \/ VisibleMutation
  \/ Tick

InitSelection ==
  /\ Init
  /\ ~development
  /\ template = "HEAD"
  /\ ~useNativeSrcset_
  /\ ~hasFallbackAttr
  /\ lowRes.present
  /\ ssrSrc = NoAttr

SpecSelection == InitSelection /\ [][NextSelection]_vars

(***************************************************************************)
(* The placeholder pipeline with time in ms: a timer set by setTimeout      *)
(* fires no earlier than its delay after it was set.                        *)
(***************************************************************************)
\* the timer set by el.onload may fire
ThrottleDue(s, clock) == clock >= s.loadedAt + s.delay

\* variant: the removal is not delayed
RemovalDueAtOnce(s, clock) == clock >= s.revealedAt

\* the timer set when the canvas was revealed may fire
RemovalDue(s, clock) == clock >= s.revealedAt + RemovalDelay

TimedLayout ==
  \E c \in Contexts, rnd \in RandomFloors : LayoutCallback(200, c[1], c[2], rnd)

TimedThrottleElapses ==
  \E k \in 1..Len(sels) : ThrottleDue(sels[k], now) /\ ThrottleTimer(k)

TimedCanvasRemoved ==
  \E k \in 1..Len(sels) : RemovalDue(sels[k], now) /\ RemovalTimer(k)

\* time passes
Advance ==
  \E t \in ClockReadings :
    /\ t > now
    /\ now' = t
    /\ UNCHANGED << layerVars, cfgVars, attrVars, elemVars, visual, vsyncQueue, sels, loads,
                    worker, workerErrors, ghostVars, lastRun >>

NextTimed ==
  \/ TimedLayout
  \/ VisibleMutation
  \/ PreloadLoads
  \/ TimedThrottleElapses
  \/ TimedCanvasRemoved
  \/ WorkerResponds
  \/ Advance

\* an element with a one-colour palette and a srcset
InitTimed ==
  /\ InitPlaceholder
  /\ lowRes.value = DescOne
  /\ elSrcset = SrcsetAB

SpecTimed == InitTimed /\ [][NextTimed]_vars

\* The preloads of layouts and their loadPromise alone, with time in ms.
NextDwell ==
  \/ TimedLayout
  \/ PreloadLoads
  \/ TimedThrottleElapses
  \/ Advance

SpecDwell == InitTimed /\ [][NextDwell]_vars

\* The canvases of layouts with time in ms: the load signal, the removal
\* timer and the worker's responses.
NextReveal ==
  \/ VisibleLayout
  \/ PreloadLoads
  \/ TimedThrottleElapses
  \/ TimedCanvasRemoved
  \/ WorkerResponds
  \/ Advance

SpecReveal == InitTimed /\ [][NextReveal]_vars

\* Failing loads: the placeholder pipeline of layouts together with the load
\* sessions of the image node and the vsync frames that show the fallback.
NextFailure ==
  \/ VisibleLayout
  \/ LoadFails
  \/ VsyncFrame
  \/ PreloadLoads
  \/ PreloadFails
  \/ ThrottleElapses
  \/ FrameRuns
  \/ CanvasRemoved
  \/ WorkerResponds

SpecFailure == InitTimed /\ [][NextFailure]_vars

\* The system layer alone, beside an image element that is left as built.
NextLayer ==
  \/ BuildLayer
  \/ StoreUpdate
  \/ LogAll
  \/ ClickLayer
  \/ LayerFrame
  \/ HideTimerFires
  \/ Elapse

\* an image element with a one-colour palette and a srcset, in either mode
\* of getMode().development
InitLayer ==
  /\ Init
  /\ ~useNativeSrcset_
  /\ ~hasFallbackAttr
  /\ lowRes = [present |-> TRUE, value |-> DescOne]
  /\ ssrSrc = NoAttr
  /\ elSrcset = SrcsetAB

SpecLayer == InitLayer /\ [][NextLayer]_vars

(***************************************************************************)
(* Properties of the element controller (SpecElement).                      *)
(***************************************************************************)
\* the latest run of updateImageSrc_ got past the width guard in non-native
\* mode, on an element that has a low-res attribute, and the resolver picked
\* the URL the node already had
PickedCurrentSrc ==
  /\ lastRun.op # "none"
  /\ lastRun.w > 0
  /\ ~useNativeSrcset_
  /\ lowRes.present
  /\ lastRun.same

\* the latest run of updateImageSrc_ changed nothing and returned a resolved
\* promise
RunWasNoOp ==
  /\ ~lastRun.srcWritten
  /\ lastRun.appended = 0
  /\ lastRun.fetches = 0
  /\ lastRun.newLoads = 0
  /\ lastRun.ret = "resolved"

\* C1: when updateImageSrc_ runs with a positive layout width in non-native
\* mode and the resolver picks the URL the image node already has, the run
\* is a complete no-op: no src write, nothing appended, no image load
\* started, and an already-resolved promise returned.
C1_UnchangedSrcIsNoOp == PickedCurrentSrc => RunWasNoOp

\* the sessions whose rejection ran onImgLoadingError_
Handled == { i \in 1..Len(loads) : loads[i].handled }

\* C2: the fallback transition fires at most once, and only for a rejection
\* of the load promise returned by the first layoutCallback; a rejection of
\* any other load runs no error handler and schedules nothing.
C2_FallbackAtMostOnce ==
  /\ errorCalls <= 1
  /\ Cardinality(Handled) = errorCalls
  /\ \A i \in Handled : loads[i].first /\ loads[i].state = "rejected"
  /\ \A i \in 1..Len(loads) : ~loads[i].first => ~loads[i].catch

C2_Witness ==
  \E i, j \in 1..Len(loads) :
    /\ loads[i].handled
    /\ ~loads[j].first
    /\ loads[j].state = "rejected"

\* C3: in every reachable state, whatever the order in which overlapping
\* load sessions have settled, the image node's src is the URL of the latest
\* selection that compared its URL with the node's src.
C3_SrcIsLatestSelection ==
  (img_ /\ lastSel # NoAttr) => imgSrc = lastSel

\* two sessions overlap, the later one has resolved and the earlier one has
\* failed after it
C3_Witness ==
  /\ Len(loads) >= 2
  /\ loads[2].state = "resolved"
  /\ loads[1].state = "rejected"
  /\ lastSettled = "rejected"
  /\ lastSel # NoAttr
  /\ Len(sels) >= 2

\* C4: once a load session has resolved and the scheduled mutations have
\* run, the image node carries no ghost marker and the fallback is hidden.
C4_ResolvedClearsFallback ==
  (lastSettled = "resolved" /\ vsyncQueue = <<>>)
    => (~visual.ghost /\ ~visual.fallback)

\* C5: a failure of the first layout's load, with fallback allowed, is
\* handled and re-thrown: the promise layoutCallback returned rejects with
\* the same error and never resolves.
C5_FailureRethrown ==
  \A i \in 1..Len(loads) :
    (loads[i].catch /\ loads[i].state = "rejected")
      => /\ loads[i].handled
         /\ loads[i].ret = "rejected"
         /\ loads[i].retErr = loads[i].err

C5_Witness ==
  \E i \in 1..Len(loads) :
    /\ loads[i].catch
    /\ loads[i].state = "rejected"
    /\ loads[i].err = "e2"

\* C6: the fallback is never shown while the ghost marker is absent or the
\* placeholder is still shown.
C6_FallbackImpliesGhost ==
  visual.fallback => (visual.ghost /\ ~visual.placeholder)

C6_Witness == visual.fallback /\ errorCalls = 1

\* C7: a run of updateImageSrc_ that reads a layout width <= 0 performs no
\* selection, writes no src, appends nothing, starts no load and returns an
\* already-resolved promise.
C7_ZeroWidthGuard ==
  (lastRun.op # "none" /\ lastRun.w <= 0)
    => (lastRun.outcome = "zero" /\ RunWasNoOp)

\* a mutation on a laid-out element whose src would otherwise change
C7_Witness ==
  /\ lastRun.op = "mutate"
  /\ lastRun.w <= 0
  /\ img_
  /\ ~useNativeSrcset_
  /\ lowRes.present
  /\ Select(srcset_, 300, 1) # imgSrc

\* a step of mutatedAttributesCallback for the record rec; the attributes
\* the host has set are the ones the element has after the step, and the
\* callback changes none of the variables listed first
MutationStep(rec) ==
  /\ UNCHANGED << img_, allowImgLoadFallback_, visual, vsyncQueue, errorCalls,
                  lastSettled >>
  /\ (lastRun' = lastRun \/ lastRun'.op = "mutate")
  /\ \E w \in LayoutWidths, c \in Contexts :
       MutatedAttributesCallback(rec, elSrc', elSrcset', w, c[1], c[2], 0)

\* C8: in non-native mode a record that carries srcset makes the cached
\* source set the one parsed from the element (its srcset attribute, or its
\* src when it has no srcset), also when src is in the record; a record with
\* src only makes it the single candidate of the src attribute, whatever
\* the srcset attribute is; a record with neither changes nothing and runs
\* no reselection.
C8_SrcsetPrecedence ==
  [][ ~useNativeSrcset_ =>
        /\ \A rec \in { { "srcset" }, { "src", "srcset" } } :
             MutationStep(rec) =>
               srcset_' = IF elSrcset' # <<>> THEN elSrcset'
                          ELSE << [url |-> elSrc', width |-> 0] >>
        /\ MutationStep({ "src" }) =>
             srcset_' = << [url |-> elSrc', width |-> 0] >>
        /\ MutationStep({ "alt" }) =>
             /\ srcset_' = srcset_
             /\ imgSrc' = imgSrc
             /\ sels' = sels
             /\ loads' = loads
             /\ lastRun' = lastRun
    ]_vars

\* the cached source set was rebuilt from src alone although the element has
\* a srcset attribute
C8_Witness ==
  /\ ~useNativeSrcset_
  /\ elSrcset = SrcsetAB
  /\ srcset_ = << [url |-> "c.jpg", width |-> 0] >>

\* C16: a run of updateImageSrc_ in which placeholder construction threw
\* has still written the selected URL to the image node and created the
\* load promise, which it returned.
C16_ShapeErrorKeepsLoad ==
  lastRun.outcome = "throwShape" =>
    /\ imgSrc = lastSel
    /\ lastRun.newLoads = 1
    /\ lastRun.ret = "pending"

\* C9: an element that carries the fallback attribute never runs
\* onImgLoadingError_ and never enters the fallback state.
C9_NoNestedFallback ==
  hasFallbackAttr =>
    /\ errorCalls = 0
    /\ Handled = {}
    /\ \A i \in 1..Len(vsyncQueue) : vsyncQueue[i] # "error"
    /\ ~visual.ghost
    /\ ~visual.fallback

C9_Witness ==
  /\ hasFallbackAttr
  /\ \E i \in 1..Len(loads) : loads[i].first /\ loads[i].state = "rejected"

(***************************************************************************)
(* Properties of the placeholder pipeline (SpecPlaceholder).                *)
(***************************************************************************)
\* C10: a worker response whose canvas has left the document is dropped
\* without an error: no call of worker.onmessage throws.
C10_StaleResponseDropped == workerErrors = 0

\* the selections whose job the worker has not answered or whose canvas is
\* in the document
Live == { k \in 1..Len(sels) :
            sels[k].built /\ (sels[k].job = "posted" \/ sels[k].canvasIn) }

\* C11: two placeholder jobs that are outstanding, or whose canvases are in
\* the document, at the same time have different ids, and a response is
\* applied to the canvas of the job that requested it: a canvas in the
\* document whose job was answered has been blurred.
C11_UniqueIds ==
  /\ \A i, j \in Live : i # j => sels[i].canvasId # sels[j].canvasId
  /\ \A k \in Live : sels[k].job = "done" => sels[k].canvasBlurred

\* C12: at most one worker is ever created; there is none before
\* blurWithWorker is first called and one from then on, so every job is
\* posted to the same worker.
C12_WorkerSingleton ==
  /\ worker <= 1
  /\ (worker = 0) <=> (\A k \in 1..Len(sels) : ~sels[k].applied)
  /\ \A k \in 1..Len(sels) : sels[k].job # "none" => worker = 1

\* two placeholders have been built and their jobs posted
C12_Witness ==
  /\ Len(sels) >= 2
  /\ sels[1].built /\ sels[1].job # "none"
  /\ sels[2].built /\ sels[2].job # "none"
  /\ sels[1].url # sels[2].url
  /\ worker = 1

\* C13: a canvas in the document is fully transparent until the load signal
\* of its selection has fired.
C13_TransparentUntilLoad ==
  \A k \in 1..Len(sels) :
    (sels[k].built /\ sels[k].pre # "resolved") => sels[k].canvasOpacity = 0

\* C13 as amended: a canvas is opaque exactly when a worker response
\* carrying its id has been applied to it or the load signal of its
\* selection has fired, and is fully transparent otherwise.
C13_TransparentUntilBlurOrLoad ==
  \A k \in 1..Len(sels) :
    sels[k].built =>
      /\ sels[k].canvasOpacity \in { 0, 1 }
      /\ (sels[k].canvasOpacity = 1)
           <=> (sels[k].canvasBlurred \/ sels[k].pre = "resolved")

\* one canvas was revealed by the load signal before the worker answered,
\* another by the worker's response before its image has loaded
C13_Witness ==
  \E i, j \in 1..Len(sels) :
    /\ sels[i].built /\ sels[i].pre = "resolved" /\ ~sels[i].canvasBlurred
    /\ sels[i].canvasOpacity = 1
    /\ sels[j].built /\ sels[j].pre = "loading" /\ sels[j].canvasBlurred
    /\ sels[j].canvasOpacity = 1

\* C24: a selection whose preloaded image has failed keeps its canvas
\* hidden and in the document, its indicator in place and its container
\* transparent.
C24_FailedPreloadFreezes ==
  \A k \in 1..Len(sels) :
    (sels[k].built /\ sels[k].pre = "error") =>
      /\ sels[k].canvasOpacity = 0
      /\ sels[k].canvasIn
      /\ sels[k].indicator
      /\ ~sels[k].containerOpaque

\* C24 as amended: the module's load promise resolves only after the load
\* event and never rejects; once the preloaded image has failed it stays
\* pending for ever, so the then-callbacks never run: no removal timer and
\* no animation frame is armed, the canvas, the indicator and the container
\* stay in the document, the container stays transparent, and the canvas
\* is opaque only if a worker response was applied to it.
C24_FailedPreloadStaysPending ==
  [][ \A k \in 1..Len(sels) :
        /\ sels[k].pre = "error" => sels'[k].pre = "error"
        /\ sels'[k].pre \in { "loading", "waiting", "resolved", "error" }
        /\ (sels'[k].pre = "resolved" /\ sels[k].pre # "resolved")
             => sels[k].pre = "waiting"
        /\ sels'[k].pre = "error" =>
             /\ sels'[k].timer = "none"
             /\ sels'[k].raf = "none"
             /\ sels'[k].revealedAt = -1
             /\ ~sels'[k].containerOpaque
             /\ sels'[k].built =>
                  /\ sels'[k].canvasIn
                  /\ sels'[k].indicator
                  /\ sels'[k].container
                  /\ (sels'[k].canvasOpacity = 1) <=> sels'[k].canvasBlurred
    ]_vars

\* the element shows its fallback, the preloaded image of its selection
\* has failed, and the worker's response has made the canvas visible
C24_Witness ==
  /\ visual.fallback
  /\ Len(sels) >= 1
  /\ sels[1].built
  /\ sels[1].pre = "error"
  /\ sels[1].canvasBlurred
  /\ sels[1].canvasOpacity = 1
  /\ sels[1].canvasIn
  /\ sels[1].indicator
  /\ ~sels[1].containerOpaque

\* n is a perfect square
IsSquare(n) == \E m \in 0..n : m * m = n

\* C15: a call of blurWithWorker builds a placeholder exactly when the
\* number of colours of the palette is a perfect square; otherwise it
\* throws, and so does the run of updateImageSrc_ that called it.
C15_NonSquareThrows ==
  /\ \A k \in 1..Len(sels) :
       sels[k].applied => (sels[k].built <=> IsSquare(Len(sels[k].pixels)))
  /\ lastRun.outcome \in { "load", "throwShape" } =>
       /\ sels # <<>>
       /\ sels[Len(sels)].applied
       /\ (lastRun.ret = "threw") <=> ~IsSquare(Len(sels[Len(sels)].pixels))
       /\ (lastRun.appended = 3) <=> IsSquare(Len(sels[Len(sels)].pixels))

\* a three-colour palette failed, twice
C15_Witness ==
  /\ Len(sels) >= 2
  /\ \A k \in 1..2 :
       sels[k].applied /\ ~sels[k].built /\ Len(sels[k].pixels) = 3
  /\ lastRun.ret = "threw"

\* C17: a palette without colours gives an inert handle: nothing is drawn
\* or appended, no job is posted and no timer is armed for it.
C17_EmptyPaletteInert ==
  \A k \in 1..Len(sels) :
    (sels[k].applied /\ sels[k].pixels = <<>>) =>
      /\ ~sels[k].canvasIn
      /\ sels[k].job = "none"
      /\ sels[k].timer = "none"

\* the selections that changed the src of the image node
SrcChanging == { k \in 1..Len(sels) : sels[k].applied }

\* the containers among the children the element holds, by selection
Containers == { k \in 1..Len(sels) : sels[k].container }

\* C27: every selection that changed the src has appended one container
\* and no container is removed: the element holds as many containers as
\* there were src-changing selections, one for each, and the container of
\* a selection whose own load signal has fired and whose frame has run is
\* opaque, superseded or not.
C27_ContainerPerSelection ==
  /\ Containers = SrcChanging
  /\ Cardinality(Containers) = Cardinality(SrcChanging)
  /\ \A k \in SrcChanging :
       (sels[k].pre = "resolved" /\ sels[k].raf = "fired") => sels[k].containerOpaque

(***************************************************************************)
(* Properties of a selection's inputs and outputs (SpecSelection).          *)
(***************************************************************************)
Hex == { "0", "1", "2", "3", "4", "5", "6", "7", "8", "9",
         "a", "b", "c", "d", "e", "f" }

\* the maximal runs of non-whitespace characters of s from position i on,
\* cur being the run read so far
RECURSIVE RunsFrom(_, _, _)
RunsFrom(s, i, cur) ==
  IF i > Len(s) THEN (IF cur = <<>> THEN <<>> ELSE << cur >>)
  ELSE IF s[i] \in Whitespace
    THEN (IF cur = <<>> THEN <<>> ELSE << cur >>) \o RunsFrom(s, i + 1, <<>>)
  ELSE RunsFrom(s, i + 1, Append(cur, s[i]))

\* the whitespace-delimited tokens of s that are six hexadecimal digits
HexTokens(s) ==
  SelectSeq(RunsFrom(s, 1, <<>>),
            LAMBDA t : Len(t) = 6 /\ \A i \in 1..6 : t[i] \in Hex)

\* C18: the palette handed to blurWithWorker is the sequence of the
\* whitespace-delimited tokens of the low-res attribute that are six
\* hexadecimal digits, in their order.
C18_PaletteIsHexTokens ==
  \A k \in 1..Len(sels) :
    sels[k].applied => sels[k].pixels = HexTokens(lowRes.value)

\* the candidate of url u follows the rule for the target: it has the
\* smallest width that is at least the target, or no width is and it has
\* the largest
FollowsRule(cands, target, u) ==
  \E i \in 1..Len(cands) :
    /\ cands[i].url = u
    /\ \/ /\ cands[i].width >= target
          /\ \A j \in 1..Len(cands) :
               cands[j].width >= target => cands[i].width <= cands[j].width
       \/ /\ \A j \in 1..Len(cands) : cands[j].width < target
          /\ \A j \in 1..Len(cands) : cands[j].width <= cands[i].width

\* C20: a layout that selects for a viewport width and a device pixel
\* ratio picks the candidate the rule gives for their product, the screen
\* width standing in for a viewport width of 0; from a.jpg 320w, b.jpg 640w
\* it picks a.jpg for (300, 1) and b.jpg for (400, 2).
C20_SelectRule ==
  [][ \A c \in Contexts :
        LayoutCallback(200, c[1], c[2], 0) =>
          /\ FollowsRule(srcset_', (IF c[1] # 0 THEN c[1] ELSE 300) * c[2],
                         lastSel')
          /\ (srcset_' = SrcsetAB /\ c = << 300, 1 >>) => lastSel' = "a.jpg"
          /\ (srcset_' = SrcsetAB /\ c = << 400, 2 >>) => lastSel' = "b.jpg"
    ]_vars

\* both candidates of the srcset have been picked
C20_Witness ==
  /\ srcset_ = SrcsetAB
  /\ Len(sels) >= 2
  /\ sels[1].url = "a.jpg"
  /\ sels[2].url = "b.jpg"
  /\ lastRun.op = "layout"
  /\ lastSel = "b.jpg"

(***************************************************************************)
(* Properties of the image node and of the selection (SpecAttributes,      *)
(* SpecElement, SpecSelection).                                             *)
(***************************************************************************)
\* the declared width of the candidate of url u
WidthOf(cands, u) ==
  LET i == CHOOSE i \in 1..Len(cands) : cands[i].url = u IN cands[i].width

\* the target width of a context: the viewport width (the screen width
\* when it is 0) times the device pixel ratio
TargetOf(c) == SelectWidth(c[1]) * c[2]

\* the URL updateImageSrc_ picks from the candidates for a context
PickedFor(cands, c) ==
  UpdateImageSrc(FALSE, lowRes, cands, NoAttr, 200, c[1], c[2], now, 0).url

\* C21: over one candidate list, a selection for a larger target never
\* has a strictly smaller declared width than a selection for a smaller
\* target: whatever a layout picks for its context, every context with a
\* target at least as large gets a candidate at least as wide, and every
\* context with a target at most as large gets one at most as wide.
C21_SelectMonotone ==
  [][ \A c, d \in Contexts :
        LayoutCallback(200, c[1], c[2], 0) =>
          /\ TargetOf(d) >= TargetOf(c) =>
               WidthOf(srcset_', PickedFor(srcset_', d)) >= WidthOf(srcset_', lastSel')
          /\ TargetOf(d) <= TargetOf(c) =>
               WidthOf(srcset_', PickedFor(srcset_', d)) <= WidthOf(srcset_', lastSel')
    ]_vars

\* a layout picked the wider candidate for the middle target, after the
\* narrower one was picked for a smaller target
C21_Witness ==
  /\ srcset_ = SrcsetAB
  /\ Len(sels) = 2
  /\ sels[1].url = "a.jpg"
  /\ sels[2].url = "b.jpg"
  /\ lastRun.op = "layout"
  /\ PickedFor(srcset_, << 0, 2 >>) = "b.jpg"
  /\ PickedFor(srcset_, << 400, 2 >>) = "b.jpg"

\* C22: as long as no layoutCallback has run there is no image node, no
\* selection, no preload and no load session, whatever mutations arrive;
\* a mutation only refreshes the cached source set, and the first layout
\* selects from that cached set without parsing the attributes again.
C22_MutationBeforeLayout ==
  [][ /\ ~img_' =>
           /\ imgNodes' = 0
           /\ sels' = <<>>
           /\ loads' = <<>>
           /\ worker' = 0
           /\ imgSrc' = NoAttr
           /\ lastRun' = NoRun
           /\ vsyncQueue' = <<>>
      /\ (~img_ /\ img_' /\ ~useNativeSrcset_ /\ srcset_ # <<>>) =>
           /\ srcset_' = srcset_
           /\ lastRun'.fetches = 1 =>
                \E i \in 1..Len(srcset_) : srcset_[i].url = lastSel'
    ]_vars

\* the first layout picked c.jpg, the src a mutation had cached, although
\* the element has carried the srcset a.jpg, b.jpg since before that layout
C22_Witness ==
  /\ img_
  /\ elSrcset = SrcsetAB
  /\ srcset_ = SrcsetFromSrc("c.jpg")
  /\ lastRun.op = "layout"
  /\ lastRun.newLoads = 1
  /\ Len(loads) = 1
  /\ loads[1].first
  /\ Len(sels) = 1
  /\ sels[1].url = "c.jpg"

\* C23: the image node is created or adopted once, by the first
\* layoutCallback: there is exactly one node once img_ is set and none
\* before, img_ is set by a layout and never reset, and after the first
\* layout the fallback permission is never granted again.
C23_NodeCreatedOnce ==
  [][ /\ imgNodes' = IF img_' THEN 1 ELSE 0
      /\ img_ => img_'
      /\ (~img_ /\ img_') => lastRun'.op = "layout"
      /\ (img_ /\ ~allowImgLoadFallback_) => ~allowImgLoadFallback_'
    ]_vars

\* a second layout has started a load on the node of the first one
C23_Witness ==
  /\ imgNodes = 1
  /\ ~hasFallbackAttr
  /\ ~allowImgLoadFallback_
  /\ Len(loads) = 2
  /\ loads[1].first
  /\ ~loads[2].first
  /\ lastRun.op = "layout"
  /\ lastRun.newLoads = 1

\* the first layoutCallback has returned without starting a load
FirstLayoutMadeNoLoad ==
  /\ img_
  /\ \A i \in 1..Len(loads) : ~loads[i].first

\* C25: the fallback opportunity is used up by the first layoutCallback
\* that returns: a layout that returned leaves the permission cleared, and
\* when the first layout started no load (zero width, or the selected URL
\* was the node's src already) no later load has the catch handler, so no
\* load failure ever reaches onImgLoadingError_ or shows the fallback.
C25_FallbackChanceConsumed ==
  /\ (img_ /\ lastRun.op = "layout" /\ lastRun.ret # "threw")
       => ~allowImgLoadFallback_
  /\ FirstLayoutMadeNoLoad =>
       /\ \A i \in 1..Len(loads) : ~loads[i].catch
       /\ errorCalls = 0
       /\ ~visual.fallback
       /\ ~visual.ghost
       /\ \A q \in 1..Len(vsyncQueue) : vsyncQueue[q] # "error"

\* an element that may show a fallback made no load in its first layout,
\* and a later load of it has failed
C25_Witness ==
  /\ FirstLayoutMadeNoLoad
  /\ ~hasFallbackAttr
  /\ ~useNativeSrcset_
  /\ lowRes.present
  /\ lowRes.value = DescFour
  /\ ~allowImgLoadFallback_
  /\ \E j \in 1..Len(loads) : loads[j].state = "rejected"

\* C26: without a low-res attribute a non-native updateImageSrc_ with a
\* positive layout width throws before it changes anything: no src is
\* written, nothing is fetched or appended, no load starts, from a layout
\* or from a mutation; and a layoutCallback that throws this way leaves the
\* fallback permission as initialize_ set it (or as it was).
C26_MissingLowResThrows ==
  [][ (~lowRes.present /\ ~useNativeSrcset_
       /\ lastRun'.op # "none" /\ lastRun'.w > 0) =>
        /\ lastRun'.outcome = "throwLowRes"
        /\ lastRun'.ret = "threw"
        /\ ~lastRun'.srcWritten
        /\ lastRun'.appended = 0
        /\ lastRun'.fetches = 0
        /\ lastRun'.newLoads = 0
        /\ sels' = sels
        /\ loads' = loads
        /\ worker' = worker
        /\ imgSrc' = (IF img_ THEN imgSrc ELSE ssrSrc)
        /\ allowImgLoadFallback_' =
             (IF img_ THEN allowImgLoadFallback_ ELSE ~hasFallbackAttr)
    ]_vars

\* a layout of an element without low-res threw and the permission it was
\* given is still there
C26_Witness ==
  /\ ~lowRes.present
  /\ ~useNativeSrcset_
  /\ ~hasFallbackAttr
  /\ img_
  /\ lastRun.op = "layout"
  /\ lastRun.outcome = "throwLowRes"
  /\ allowImgLoadFallback_


(***************************************************************************)
(* Properties of the system layer (SpecLayer).                              *)
(***************************************************************************)
\* C28: build is idempotent: before the first call there is no root, no
\* element, no listener and no subscription; the first call creates the
\* root and registers one click listener and eight subscriptions; a later
\* call returns the same root and changes nothing else of the layer.
C28_BuildIdempotent ==
  [][ /\ ~isBuilt_' =>
           /\ root_' = 0
           /\ layerEls' = 0
           /\ listeners' = 0
           /\ subscriptions' = 0
           /\ returned' = <<>>
      /\ isBuilt_' =>
           /\ root_' # 0
           /\ listeners' = 1
           /\ subscriptions' = 8
           /\ returned' # <<>>
           /\ \A i \in 1..Len(returned') : returned'[i] = root_'
      /\ isBuilt_ =>
           /\ isBuilt_'
           /\ root_' = root_
           /\ listeners' = listeners
           /\ subscriptions' = subscriptions
      /\ (isBuilt_ /\ returned' # returned) =>
           /\ returned' = Append(returned, root_)
           /\ UNCHANGED << layerEls, sharePill, layerQueue, dispatched,
                           messagedisplay, hideTimers >>
    ]_vars

\* build was called again after a click was handled and the message shown
C28_Witness ==
  /\ isBuilt_
  /\ Len(returned) = 2
  /\ returned[1] = returned[2]
  /\ listeners = 1
  /\ subscriptions = 8
  /\ Len(dispatched) = 1
  /\ messagedisplay = "show"
  /\ layerQueue = <<>>

\* the number of mutations m in the queue q
RECURSIVE CountOf(_, _)
CountOf(q, m) ==
  IF q = <<>> THEN 0
  ELSE (IF Head(q) = m THEN 1 ELSE 0) + CountOf(Tail(q), m)

\* the element is a control of the class cls: it carries the class itself
IsControl(target, cls) == target # << >> /\ target[Len(target)] = cls

\* C29: a click on a mute (unmute) control of the built layer dispatches
\* TOGGLE_MUTED with true (false) and queues the mutation that shows the
\* message; the next frame sets messagedisplay to show and arms one hide
\* timer for each click it serves, so that there is a timer or a pending
\* show mutation for every dispatch; a timer fires no earlier than 1500 ms
\* after its mutation, and only then is messagedisplay set to noshow; no
\* step removes, re-arms or cancels a timer.
C29_MuteMessageTimers ==
  [][ /\ \A target \in Elements(template), notified \in BOOLEAN :
           /\ (IsControl(target, "mute") /\ Click(target, notified)) =>
                /\ dispatched' = Append(dispatched, TRUE)
                /\ CountOf(layerQueue', "show") = CountOf(layerQueue, "show") + 1
                /\ messagedisplay' = messagedisplay
           /\ (IsControl(target, "unmute") /\ Click(target, notified)) =>
                /\ dispatched' = Append(dispatched, FALSE)
                /\ CountOf(layerQueue', "show") = CountOf(layerQueue, "show") + 1
                /\ messagedisplay' = messagedisplay
      /\ Len(hideTimers') + CountOf(layerQueue', "show") = Len(dispatched')
      /\ (LayerFrame /\ CountOf(layerQueue, "show") > 0) =>
           /\ Len(hideTimers') = Len(hideTimers) + CountOf(layerQueue, "show")
           /\ \A i \in (Len(hideTimers) + 1)..Len(hideTimers') :
                hideTimers'[i] = [armedAt |-> now, state |-> "armed"]
           /\ CountOf(layerQueue, "hide") = 0 => messagedisplay' = "show"
      /\ Len(hideTimers') >= Len(hideTimers)
      /\ \A i \in 1..Len(hideTimers) :
           /\ hideTimers'[i].armedAt = hideTimers[i].armedAt
           /\ hideTimers[i].state = "fired" => hideTimers'[i].state = "fired"
           /\ (hideTimers[i].state = "armed" /\ hideTimers'[i].state = "fired")
                => /\ now >= hideTimers[i].armedAt + 1500
                   /\ CountOf(layerQueue', "hide") = CountOf(layerQueue, "hide") + 1
      /\ (messagedisplay' = "noshow" /\ messagedisplay # "noshow") =>
           \E i \in 1..Len(hideTimers) :
             /\ hideTimers[i].state = "fired"
             /\ now >= hideTimers[i].armedAt + 1500
      /\ messagedisplay' # messagedisplay => layerQueue' = <<>>
    ]_vars

(***************************************************************************)
(* Properties of the timers (SpecTimed, SpecDwell).                         *)
(***************************************************************************)
\* C14: a built canvas has its removal timer armed exactly when the load
\* signal of its selection has fired, which also reveals it; it leaves the
\* document only by that timer, no earlier than 500 ms after the signal; and
\* no step cancels or re-arms an armed timer: it stays armed for the same
\* time until it fires.
C14_RemovalAfterSignal ==
  [][ \A k \in 1..Len(sels) :
        /\ sels'[k].built =>
             /\ (sels'[k].pre = "resolved") <=> (sels'[k].timer # "none")
             /\ sels'[k].timer # "none" => sels'[k].revealedAt >= sels'[k].loadedAt
             /\ sels'[k].timer = "armed" =>
                  (sels'[k].canvasIn /\ sels'[k].canvasOpacity = 1)
             /\ ~sels'[k].canvasIn =>
                  /\ sels'[k].timer = "fired"
                  /\ now' >= sels'[k].revealedAt + 500
        /\ sels[k].timer = "armed" =>
             /\ sels'[k].timer \in { "armed", "fired" }
             /\ sels'[k].revealedAt = sels[k].revealedAt
        /\ sels[k].timer = "fired" => sels'[k].timer = "fired"
    ]_vars

\* a canvas was removed after a later selection was made and the worker
\* answered while its timer was armed
C14_Witness ==
  /\ Len(sels) >= 2
  /\ sels[1].timer = "fired"
  /\ ~sels[1].canvasIn
  /\ sels[2].built
  /\ sels[2].start > sels[1].revealedAt
  /\ sels[2].start < sels[1].revealedAt + 500
  /\ sels[2].job = "done"

\* C19: the throttle is an integer of [1200, 2400); a preload resolves only
\* after its load event, and no earlier than throttle ms after its creation;
\* a load event that comes throttle ms or more after the creation sets a
\* timer of 0 ms.
C19_MinimumDwell ==
  \A k \in 1..Len(sels) :
    /\ sels[k].throttle \in 1200..2399
    /\ sels[k].pre = "resolved" =>
         /\ sels[k].loadedAt >= sels[k].start
         /\ now >= sels[k].loadedAt
         /\ now >= sels[k].start + sels[k].throttle
    /\ (sels[k].pre \in { "waiting", "resolved" }
        /\ sels[k].loadedAt - sels[k].start >= sels[k].throttle)
         => sels[k].delay = 0

\* one preload resolved at the time of a late load event, another one was
\* held back after an early load event
C19_Witness ==
  \E i, j \in 1..Len(sels) :
    /\ sels[i].pre = "resolved"
    /\ sels[i].loadedAt >= sels[i].start + sels[i].throttle
    /\ sels[i].loadedAt = now
    /\ sels[j].pre = "waiting"
    /\ sels[j].delay > 0
    /\ sels[j].throttle = 2399

====
